---- MODULE Spec2Model ----
(***************************************************************************)
(* Variant tree construction and collapsing                                *)
(* (py_algos_eseidinger/complexity/varianttree.py).                        *)
(*                                                                         *)
(* Encoding.  A sympy Symbol is a positive integer whose numeric order is  *)
(* the order of the symbol names (A < B < C), which is the order           *)
(* get_sorted_attributes sorts by.  An Optional[bool] attribute value is   *)
(* one of the strings "True", "False", "None".  An Attribute is a record   *)
(* [symbol, value]; a Variant is the sequence of its attributes.  A        *)
(* boolean expression is a tuple <<"sym", s>>, <<"not", e>>,               *)
(* <<"and", l, r>> or <<"or", l, r>>.  A VariantNode is a record held in   *)
(* an arena                                                                *)
(* (sequence) and named by its index; parent = 0 is Python's None.         *)
(***************************************************************************)
EXTENDS Naturals, Integers, Sequences, FiniteSets, TLC

\* ------------------------------------------------------------------------
\* Symbols and values
\* ------------------------------------------------------------------------
A == 1
B == 2
C == 3

None == "None"
True == "True"
False == "False"

NoNode == 0

Symbols == {A, B, C}
OptBool == {True, False, None}

Attribute(sym, value) == [symbol |-> sym, value |-> value]

Range(s) == {s[i] : i \in DOMAIN s}

RECURSIVE Flatten(_)
Flatten(ss) == IF ss = <<>> THEN <<>> ELSE Head(ss) \o Flatten(Tail(ss))

Reverse(s) == [i \in 1..Len(s) |-> s[Len(s) + 1 - i]]

\* list.index: position of the first element equal to x, 0 when absent
IndexOf(s, x) ==
  IF \E i \in DOMAIN s : s[i] = x
  THEN CHOOSE i \in DOMAIN s : s[i] = x /\ \A j \in 1..(i - 1) : s[j] # x
  ELSE 0

\* list.remove: drops the first element equal to x, no change when absent
RemoveFirst(s, x) ==
  LET i == IndexOf(s, x)
  IN IF i = 0 THEN s
     ELSE [j \in 1..(Len(s) - 1) |-> IF j < i THEN s[j] ELSE s[j + 1]]

\* ------------------------------------------------------------------------
\* Variant
\* ------------------------------------------------------------------------

\* sorted(self.attributes, key=str(symbol)): stable insertion sort
RECURSIVE InsertSorted(_, _)
InsertSorted(sorted, attr) ==
  IF sorted = <<>> THEN <<attr>>
  ELSE IF Head(sorted).symbol <= attr.symbol
       THEN <<Head(sorted)>> \o InsertSorted(Tail(sorted), attr)
       ELSE <<attr>> \o sorted

RECURSIVE SortFrom(_, _, _)
SortFrom(attrs, i, acc) ==
  IF i > Len(attrs) THEN acc
  ELSE SortFrom(attrs, i + 1, InsertSorted(acc, attrs[i]))

get_sorted_attributes(variant) == SortFrom(variant, 1, <<>>)

\* dict of the attributes that have a value; a later attribute of the same
\* symbol overwrites an earlier one
to_dict(variant) ==
  LET set == {i \in DOMAIN variant : variant[i].value # None}
      keys == {variant[i].symbol : i \in set}
      last(k) == CHOOSE i \in set :
                   /\ variant[i].symbol = k
                   /\ \A j \in set : variant[j].symbol = k => j <= i
  IN [k \in keys |-> variant[last(k)].value]

VariantEq(v1, v2) == to_dict(v1) = to_dict(v2)

\* is_derived_from_or_equal over the attribute lists as given, unsorted
is_derived_from_or_equal_unsorted(self, other_variant) ==
  LET n == IF Len(self) < Len(other_variant) THEN Len(self) ELSE Len(other_variant)
  IN \A i \in 1..n :
        other_variant[i].value # None => self[i].value = other_variant[i].value

\* is_derived_from_or_equal that also skips the unset attributes of self
is_derived_from_or_equal_compatible(self, other_variant) ==
  LET s == get_sorted_attributes(self)
      o == get_sorted_attributes(other_variant)
      n == IF Len(s) < Len(o) THEN Len(s) ELSE Len(o)
  IN \A i \in 1..n :
        (o[i].value # None /\ s[i].value # None) => s[i].value = o[i].value

\* zip() pairs the two sorted attribute lists by position and stops at the
\* shorter one; the symbols of a pair are never compared
is_derived_from_or_equal(self, other_variant) ==
  LET s == get_sorted_attributes(self)
      o == get_sorted_attributes(other_variant)
      n == IF Len(s) < Len(o) THEN Len(s) ELSE Len(o)
  IN \A i \in 1..n : o[i].value # None => s[i].value = o[i].value

derive_one(self, next_symbols, value) ==
  [i \in DOMAIN self |->
     IF self[i].symbol \in Range(next_symbols)
     THEN Attribute(self[i].symbol, value[IndexOf(next_symbols, self[i].symbol)])
     ELSE self[i]]

\* derive_variants that returns the derived variants last to first
derive_variants_reversed(self, next_symbols, values) ==
  [i \in DOMAIN values |->
     derive_one(self, next_symbols, values[Len(values) - i + 1])]

derive_variants(self, next_symbols, values) ==
  [i \in DOMAIN values |-> derive_one(self, next_symbols, values[i])]

\* derive_variants on Attribute objects.  objects is the sequence of the
\* Attribute objects there are, an object being known by its index; a
\* Variant is the list of the indices of its attributes.
\* the variant, read by value
ValuesOf(objects, self) == [i \in DOMAIN self |-> objects[self[i]]]

\* the positions of the list at which an object occurs for the first time
RECURSIVE FirstOccurrences(_, _)
FirstOccurrences(self, i) ==
  IF i > Len(self) THEN <<>>
  ELSE (IF IndexOf(self, self[i]) = i THEN <<i>> ELSE <<>>)
       \o FirstOccurrences(self, i + 1)

\* a copy that is the receiver itself, no object made
deepcopy_shared(objects, self) == [objects |-> objects, copy |-> self]

\* deepcopy(self): a new Attribute object for every attribute object of
\* self (one for an object that is in the list twice), with its symbol and
\* value; the objects there were stay as they are
deepcopy(objects, self) ==
  LET firsts == FirstOccurrences(self, 1)
  IN [objects |-> objects \o [k \in DOMAIN firsts |-> objects[self[firsts[k]]]],
      copy |-> [i \in DOMAIN self |->
                  Len(objects) + IndexOf(firsts, IndexOf(self, self[i]))]]

\* the inner loop of derive_variants: attribute.value = value[index] for the
\* attributes of new_variant whose symbol is in next_symbols
SetValues(objects, new_variant, next_symbols, value) ==
  [o \in DOMAIN objects |->
     IF o \in Range(new_variant) /\ objects[o].symbol \in Range(next_symbols)
     THEN Attribute(objects[o].symbol,
                    value[IndexOf(next_symbols, objects[o].symbol)])
     ELSE objects[o]]

\* the loop of derive_variants from the i-th element of values on: the
\* objects at the end and the list new_variants
RECURSIVE DeriveVariantsFrom(_, _, _, _, _, _)
DeriveVariantsFrom(objects, self, next_symbols, values, i, new_variants) ==
  IF i > Len(values) THEN [objects |-> objects, new_variants |-> new_variants]
  ELSE LET Assigned(copied) ==
             CHOOSE derived \in
               {DeriveVariantsFrom(assigned, self, next_symbols, values, i + 1,
                                   Append(new_variants, copied.copy)) :
                  assigned \in {SetValues(copied.objects, copied.copy,
                                          next_symbols, values[i])}} : TRUE
       IN CHOOSE derived \in {Assigned(copied) : copied \in {deepcopy(objects, self)}} : TRUE

\* is_possible without the pruning test
is_possible_unpruned(self, possible_variants) == TRUE

\* is_possible with all() in place of any()
is_possible_all(self, possible_variants) ==
  \A i \in DOMAIN possible_variants :
     is_derived_from_or_equal(possible_variants[i], self)

\* is_possible that accepts only a variant equal to a possible variant
is_possible_exact(self, possible_variants) ==
  \E i \in DOMAIN possible_variants : VariantEq(possible_variants[i], self)

is_possible(self, possible_variants) ==
  \E i \in DOMAIN possible_variants :
     is_derived_from_or_equal(possible_variants[i], self)

is_final(self, relevant_symbols) ==
  \A i \in DOMAIN self :
     self[i].symbol \in Range(relevant_symbols) => self[i].value # None

is_empty(self) == \A i \in DOMAIN self : self[i].value = None

\* ------------------------------------------------------------------------
\* Condition
\* ------------------------------------------------------------------------
Sym(s) == <<"sym", s>>
Not(e) == <<"not", e>>
And(l, r) == <<"and", l, r>>
Or(l, r) == <<"or", l, r>>

Literal(s, positive) == <<s, positive>>

\* the sympy object for an AND or OR of the arguments args (LatticeOp): the
\* arguments of arguments of the same class are taken in their place, equal
\* arguments are one, a single argument is returned itself
LatticeOp(op, args) ==
  LET flat == UNION {IF a[1] = op THEN a[2] ELSE {a} : a \in args}
  IN IF Cardinality(flat) = 1 THEN CHOOSE a \in flat : TRUE ELSE <<op, flat>>

\* the sympy object for ~x: a double negation is dropped
NotOf(x) == IF x[1] = "not" THEN x[2] ELSE <<"not", x>>

\* the sympy object the operators &, | and ~ build for the expression e
RECURSIVE sympify(_)
sympify(e) ==
  CASE e[1] = "sym" -> e
    [] e[1] = "not" -> NotOf(sympify(e[2]))
    [] e[1] = "and" -> LatticeOp("and", {sympify(e[2]), sympify(e[3])})
    [] e[1] = "or"  -> LatticeOp("or", {sympify(e[2]), sympify(e[3])})

is_literal(x) == x[1] = "sym" \/ (x[1] = "not" /\ x[2][1] = "sym")

\* to_nnf(simplify=False): negations pushed to the symbols
RECURSIVE to_nnf(_)
to_nnf(x) ==
  IF is_literal(x) THEN x
  ELSE IF x[1] = "not"
  THEN LatticeOp(IF x[2][1] = "and" THEN "or" ELSE "and",
                 {to_nnf(NotOf(a)) : a \in x[2][2]})
  ELSE LatticeOp(x[1], {to_nnf(a) : a \in x[2]})

RECURSIVE count_nodes(_)
RECURSIVE NodesOfAll(_)
RECURSIVE sort_key_before(_, _)
RECURSIVE ordered_before(_, _)
RECURSIVE ordered(_)
\* the number of nodes of the expression tree, the first key of ordered()
count_nodes(x) ==
  CASE x[1] = "sym" -> 1
    [] x[1] = "not" -> 1 + count_nodes(x[2])
    [] OTHER -> 1 + NodesOfAll(x[2])

NodesOfAll(args) ==
  IF args = {} THEN 0
  ELSE LET a == CHOOSE a \in args : TRUE IN count_nodes(a) + NodesOfAll(args \ {a})

\* the rank of the class in default_sort_key: Symbol is an Atom and comes
\* first, the others go by the name of their class
ClassRank(x) ==
  CASE x[1] = "sym" -> 0 [] x[1] = "and" -> 1 [] x[1] = "not" -> 2 [] x[1] = "or" -> 3

\* default_sort_key(x) < default_sort_key(y): the class, then the number of
\* arguments, then the keys of the arguments in their order; symbols by name
sort_key_before(x, y) ==
  IF ClassRank(x) # ClassRank(y) THEN ClassRank(x) < ClassRank(y)
  ELSE CASE x[1] = "sym" -> x[2] < y[2]
         [] x[1] = "not" -> sort_key_before(x[2], y[2])
         [] OTHER ->
              IF Cardinality(x[2]) # Cardinality(y[2])
              THEN Cardinality(x[2]) < Cardinality(y[2])
              ELSE LET u == ordered(x[2])
                       v == ordered(y[2])
                   IN \E i \in DOMAIN u :
                         /\ \A j \in 1..(i - 1) : u[j] = v[j]
                         /\ sort_key_before(u[i], v[i])

\* x comes before y in ordered(): fewer nodes first, then the sort key
ordered_before(x, y) ==
  IF count_nodes(x) # count_nodes(y) THEN count_nodes(x) < count_nodes(y) ELSE sort_key_before(x, y)

\* ordered(args), the order of the .args of an And or Or
ordered(args) ==
  IF args = {} THEN <<>>
  ELSE LET first == CHOOSE a \in args : \A b \in args \ {a} : ordered_before(a, b)
       IN <<first>> \o ordered(args \ {first})

\* distribute_or_over_and: the first OR among the arguments of an AND is
\* taken apart, each of its arguments joined with the remaining arguments in
\* a new AND, and so on until no AND has an OR below it
RECURSIVE distribute_or_over_and(_)
distribute_or_over_and(x) ==
  IF x[1] = "and"
  THEN LET disjunctions == {a \in x[2] : a[1] = "or"}
       IN IF disjunctions = {} THEN x
          ELSE LET conj == IF Cardinality(disjunctions) = 1
                           THEN CHOOSE a \in disjunctions : TRUE
                           ELSE ordered(disjunctions)[1]
                   rest == LatticeOp("and", x[2] \ {conj})
               IN LatticeOp("or", {distribute_or_over_and(LatticeOp("and", {c, rest})) :
                                     c \in conj[2]})
  ELSE IF x[1] = "or"
  THEN LatticeOp("or", {distribute_or_over_and(a) : a \in x[2]})
  ELSE x

LiteralOf(x) == IF x[1] = "sym" THEN Literal(x[2], TRUE) ELSE Literal(x[2][2], FALSE)

\* the literals of a term of the DNF
TermOf(x) == IF x[1] = "and" THEN {LiteralOf(a) : a \in x[2]} ELSE {LiteralOf(x)}

\* to_dnf(e), or to_dnf(~e) when negated, as the set of its top-level OR
\* terms (the .args of an Or, the expression itself otherwise), each term the
\* set of its literals; nothing is simplified beyond what And and Or do when
\* they are built (simplify=False)
DnfTerms(e, negated) ==
  LET dnf == distribute_or_over_and(to_nnf(sympify(IF negated THEN Not(e) ELSE e)))
  IN IF dnf[1] = "or" THEN {TermOf(t) : t \in dnf[2]} ELSE {TermOf(dnf)}

to_dnf(condition) == DnfTerms(condition, FALSE)

\* term.has(sym): sym occurs anywhere in the term, also below a Not
term_has_symbol(term, sym) == \E lit \in term : lit[1] = sym

\* term.has(~sym): the negated literal occurs in the term
term_has_negation(term, sym) == Literal(sym, FALSE) \in term

term_to_variant(term, relevant_symbols) ==
  [i \in DOMAIN relevant_symbols |->
     IF term_has_symbol(term, relevant_symbols[i])
     THEN Attribute(relevant_symbols[i], True)
     ELSE IF term_has_negation(term, relevant_symbols[i])
          THEN Attribute(relevant_symbols[i], False)
          ELSE Attribute(relevant_symbols[i], None)]

\* one variant per term of the DNF; the order of the terms does not matter
\* to the only caller (any(...) in solves), so the list is kept as a set
to_possible_variants(condition, relevant_symbols) ==
  {term_to_variant(term, relevant_symbols) : term \in to_dnf(condition)}

RECURSIVE SetSymbols(_, _)
SetSymbols(variant, i) ==
  IF i > Len(variant) THEN <<>>
  ELSE (IF variant[i].value # None THEN <<variant[i].symbol>> ELSE <<>>)
       \o SetSymbols(variant, i + 1)

\* solves that answers False for a variant without any value
solves_unless_empty(self, condition) ==
  LET relevant_symbols == SetSymbols(self, 1)
  IN /\ relevant_symbols # <<>>
     /\ \E possible_variant \in to_possible_variants(condition, relevant_symbols) :
           is_derived_from_or_equal(self, possible_variant)

solves(self, condition) ==
  LET relevant_symbols == SetSymbols(self, 1)
  IN \E possible_variant \in to_possible_variants(condition, relevant_symbols) :
        is_derived_from_or_equal(self, possible_variant)

check(condition, variant) == solves(variant, condition)

\* Part
Part(name, condition) == [name |-> name, condition |-> condition]

get_condition(conditional) == conditional.condition

\* ------------------------------------------------------------------------
\* VariantNode
\* ------------------------------------------------------------------------

create_root_variant(symbol_order) ==
  LET symbols_flat == Flatten(symbol_order)
  IN [i \in DOMAIN symbols_flat |-> Attribute(symbols_flat[i], None)]

\* the number of digits of bin(value) for value >= 0 ("0b0" for 0)
RECURSIVE BinaryDigits(_)
BinaryDigits(value) == IF value < 2 THEN 1 ELSE 1 + BinaryDigits(value \div 2)

\* the length of bin(value)[2:].zfill(nof_bits): zfill pads on the left and
\* never cuts
ZfillLength(value, nof_bits) ==
  IF BinaryDigits(value) > nof_bits THEN BinaryDigits(value) ELSE nof_bits

\* bool_from_integer with the bits inverted (bit 0 rendered as True)
bool_from_integer_inverted(value, nof_bits) ==
  IF value < 0 THEN "ValueError"
  ELSE
  LET length == ZfillLength(value, nof_bits)
  IN [j \in 1..length |->
        IF (value \div (2 ^ (length - j))) % 2 = 1 THEN False ELSE True]

\* bool_from_integer with the least significant bit first
bool_from_integer_lsb_first(value, nof_bits) ==
  IF value < 0 THEN "ValueError"
  ELSE
  LET length == ZfillLength(value, nof_bits)
  IN [j \in 1..length |->
        IF (value \div (2 ^ (j - 1))) % 2 = 1 THEN True ELSE False]

\* bin(value)[2:].zfill(nof_bits): most significant bit first, at least
\* nof_bits and at least one digit, all digits of value kept.  For a negative
\* value bin() gives "-0b...", [2:] leaves the "b" and int("b") raises
\* ValueError
bool_from_integer(value, nof_bits) ==
  IF value < 0 THEN "ValueError"
  ELSE LET length == ZfillLength(value, nof_bits)
       IN [j \in 1..length |->
             IF (value \div (2 ^ (length - j))) % 2 = 1 THEN True ELSE False]

\* the exception _get_next_symbols ends with, "none" when it returns:
\* symbol_order[0] of an empty order is an IndexError outside the try,
\* symbol_order.index of a list that is not a group of the order is a
\* ValueError, which the except clause does not catch
get_next_symbols_raises(current_symbols, symbol_order) ==
  IF Len(current_symbols) = 0
  THEN (IF Len(symbol_order) = 0 THEN "IndexError" ELSE "none")
  ELSE (IF IndexOf(symbol_order, current_symbols) = 0 THEN "ValueError" ELSE "none")

\* the next group after the first group equal to current_symbols; the
\* IndexError past the last group is caught and gives []; the name of the
\* exception where one is raised
get_next_symbols(current_symbols, symbol_order) ==
  IF get_next_symbols_raises(current_symbols, symbol_order) # "none"
  THEN get_next_symbols_raises(current_symbols, symbol_order)
  ELSE IF Len(current_symbols) = 0 THEN symbol_order[1]
  ELSE LET index == IndexOf(symbol_order, current_symbols)
       IN IF index + 1 > Len(symbol_order) THEN <<>> ELSE symbol_order[index + 1]

\* the loop over all_conditionals without the check
SatisfiedFrom_unchecked(all_conditionals, variant, i) ==
  SubSeq(all_conditionals, i, Len(all_conditionals))

RECURSIVE SatisfiedFrom(_, _, _)
SatisfiedFrom(all_conditionals, variant, i) ==
  IF i > Len(all_conditionals) THEN <<>>
  ELSE (IF check(get_condition(all_conditionals[i]), variant)
        THEN <<all_conditionals[i]>> ELSE <<>>)
       \o SatisfiedFrom(all_conditionals, variant, i + 1)

add_child(arena, self, child) ==
  [arena EXCEPT ![self].children = Append(@, child),
                ![child].parent = self]


\* the arena in place of which the RecursionError of a nesting of
\* constructor calls is propagated, raised where the nesting has no end or
\* where the interpreter has no frames left for it
RecursionError == <<>>

\* the values in place of an arena for the exceptions of _get_next_symbols
ValueError == <<[raised |-> "ValueError"]>>

IndexError == <<[raised |-> "IndexError"]>>

\* the constructor ended with an exception
Raised(arena) == arena \in {RecursionError, ValueError, IndexError}

\* the arguments that tell one constructor call from another while the
\* order, the possible variants and the conditionals stay the same
CallOf(current_symbols, variant) == <<current_symbols, variant>>

RECURSIVE NewNodeAt(_, _, _, _, _, _, _, _)
RECURSIVE AddChildrenFrom(_, _, _, _, _, _, _, _, _, _)
\* VariantNode.__init__ below the constructor calls in active, which have
\* not returned yet: the new node takes the next free index of the arena;
\* node_props, a dict, is the set of its (key, value) pairs.  frames is the
\* number of nested constructor calls, this one included, whose
\* derive_variants the interpreter still has frames for: it depends on the
\* recursion limit and on the depth of the caller, not on the program, and
\* the call whose deepcopy finds none left ends with a RecursionError.  A
\* call that gets as far as _create_child_nodes with the arguments of an
\* active call repeats the steps of that call and nests without end: it ends
\* with a RecursionError however many frames there are
NewNodeAt(arena, current_symbols, variant, symbol_order, possible_variants, all_conditionals, active, frames) ==
  LET self == Len(arena) + 1
      node == [current_symbols |-> current_symbols,
               variant |-> variant,
               conditionals |-> <<>>,
               children |-> <<>>,
               parent |-> NoNode,
               node_props |-> {}]
      arena1 == Append(arena, node)
  IN IF is_final(variant, Flatten(symbol_order))
     THEN [arena1 EXCEPT ![self].conditionals = SatisfiedFrom(all_conditionals, variant, 1)]
     ELSE IF get_next_symbols_raises(current_symbols, symbol_order) = "ValueError"
     THEN ValueError
     ELSE IF get_next_symbols_raises(current_symbols, symbol_order) = "IndexError"
     THEN IndexError
     ELSE IF CallOf(current_symbols, variant) \in active THEN RecursionError
     ELSE LET next_symbols == get_next_symbols(current_symbols, symbol_order)
          IN IF Len(next_symbols) = 0 THEN arena1
             ELSE IF frames = 0 THEN RecursionError
             ELSE LET nof_variants == 2 ^ Len(next_symbols)
                      bool_values == [i \in 1..nof_variants |->
                                        bool_from_integer(i - 1, Len(next_symbols))]
                      variants == derive_variants(variant, next_symbols, bool_values)
                  IN AddChildrenFrom(arena1, self, next_symbols, variants, 1,
                                     symbol_order, possible_variants, all_conditionals,
                                     active \cup {CallOf(current_symbols, variant)},
                                     frames - 1)

\* the loop of _create_child_nodes from the i-th derived variant on, active
\* holding the call of self as well and frames the frames left below it; an
\* error raised by a child's constructor ends the loop and is passed on
AddChildrenFrom(arena, self, next_symbols, variants, i, symbol_order, possible_variants, all_conditionals, active, frames) ==
  IF i > Len(variants) THEN arena
  ELSE IF is_possible(variants[i], possible_variants)
       THEN LET child == Len(arena) + 1
                arena1 == NewNodeAt(arena, next_symbols, variants[i],
                                    symbol_order, possible_variants, all_conditionals,
                                    active, frames)
            IN IF Raised(arena1) THEN arena1
               ELSE AddChildrenFrom(add_child(arena1, self, child), self, next_symbols,
                                    variants, i + 1,
                                    symbol_order, possible_variants, all_conditionals,
                                    active, frames)
       ELSE AddChildrenFrom(arena, self, next_symbols, variants, i + 1,
                            symbol_order, possible_variants, all_conditionals,
                            active, frames)

\* VariantNode(current_symbols, variant, symbol_order, possible_variants,
\* all_conditionals) called from outside, where the interpreter has frames
\* for that many nested constructor calls
NewNode(arena, current_symbols, variant, symbol_order, possible_variants, all_conditionals, frames) ==
  NewNodeAt(arena, current_symbols, variant, symbol_order, possible_variants,
            all_conditionals, {}, frames)

RECURSIVE find_nodes_having_all_symbols(_, _, _)
RECURSIVE FindInChildrenFrom(_, _, _, _)
find_nodes_having_all_symbols(arena, self, search_symbols) ==
  IF arena[self].current_symbols = search_symbols THEN <<self>>
  ELSE FindInChildrenFrom(arena, arena[self].children, search_symbols, 1)

FindInChildrenFrom(arena, children, search_symbols, i) ==
  IF i > Len(children) THEN <<>>
  ELSE find_nodes_having_all_symbols(arena, children[i], search_symbols)
       \o FindInChildrenFrom(arena, children, search_symbols, i + 1)

RECURSIVE get_path_to_parent_node(_, _, _)
get_path_to_parent_node(arena, self, parent_nodes) ==
  IF self \in Range(parent_nodes) \/ arena[self].parent = NoNode THEN <<self>>
  ELSE <<self>> \o get_path_to_parent_node(arena, arena[self].parent, parent_nodes)

RECURSIVE PathSymbolsFrom(_, _, _)
PathSymbolsFrom(arena, path, i) ==
  IF i > Len(path) THEN <<>>
  ELSE arena[path[i]].current_symbols \o PathSymbolsFrom(arena, path, i + 1)

\* _compact_path that also empties the conditionals of the tail
compact_path_dropping_conditionals(arena, path_to_head) ==
  LET new_symbols == Reverse(PathSymbolsFrom(arena, path_to_head, 1))
      head == path_to_head[Len(path_to_head)]
      new_parent == arena[head].parent
      tail == path_to_head[1]
  IN IF new_parent = NoNode THEN arena
     ELSE LET removed == [arena EXCEPT ![new_parent].children = RemoveFirst(@, head)]
              appended == [removed EXCEPT ![new_parent].children = Append(@, tail)]
          IN [appended EXCEPT ![tail].parent = new_parent,
                              ![tail].current_symbols = new_symbols,
                              ![tail].conditionals = <<>>]

\* _compact_path that leaves the tail its own label
compact_path_keeping_label(arena, path_to_head) ==
  LET head == path_to_head[Len(path_to_head)]
      new_parent == arena[head].parent
      tail == path_to_head[1]
  IN IF new_parent = NoNode THEN arena
     ELSE LET removed == [arena EXCEPT ![new_parent].children = RemoveFirst(@, head)]
              appended == [removed EXCEPT ![new_parent].children = Append(@, tail)]
          IN [appended EXCEPT ![tail].parent = new_parent]

\* _compact_path that leaves the head among the children of its parent
compact_path_keeping_head(arena, path_to_head) ==
  LET new_symbols == Reverse(PathSymbolsFrom(arena, path_to_head, 1))
      head == path_to_head[Len(path_to_head)]
      new_parent == arena[head].parent
      tail == path_to_head[1]
  IN IF new_parent = NoNode THEN arena
     ELSE LET appended == [arena EXCEPT ![new_parent].children = Append(@, tail)]
          IN [appended EXCEPT ![tail].parent = new_parent,
                              ![tail].current_symbols = new_symbols]

\* _compact_path without the early return for a path that ends at the root
compact_path_up_to_root(arena, path_to_head) ==
  LET new_symbols == Reverse(PathSymbolsFrom(arena, path_to_head, 1))
      head == path_to_head[Len(path_to_head)]
      new_parent == IF arena[head].parent = NoNode THEN head ELSE arena[head].parent
      tail == path_to_head[1]
  IN IF tail = head /\ arena[head].parent = NoNode THEN arena
     ELSE LET removed == [arena EXCEPT ![new_parent].children = RemoveFirst(@, head)]
              appended == [removed EXCEPT ![new_parent].children = Append(@, tail)]
          IN [appended EXCEPT ![tail].parent = new_parent,
                              ![tail].current_symbols = new_symbols]

compact_path(arena, path_to_head) ==
  LET new_symbols == Reverse(PathSymbolsFrom(arena, path_to_head, 1))
      head == path_to_head[Len(path_to_head)]
      new_parent == arena[head].parent
      tail == path_to_head[1]
  IN IF new_parent = NoNode THEN arena
     ELSE LET removed == [arena EXCEPT ![new_parent].children = RemoveFirst(@, head)]
              appended == [removed EXCEPT ![new_parent].children = Append(@, tail)]
          IN [appended EXCEPT ![tail].parent = new_parent,
                              ![tail].current_symbols = new_symbols]

RECURSIVE CollapseFrom(_, _, _, _)
CollapseFrom(arena, head_nodes, tail_nodes, i) ==
  IF i > Len(tail_nodes) THEN arena
  ELSE LET path_to_head == get_path_to_parent_node(arena, tail_nodes[i], head_nodes)
       IN CollapseFrom(IF Len(path_to_head) > 0
                       THEN compact_path(arena, path_to_head) ELSE arena,
                       head_nodes, tail_nodes, i + 1)

collapse(arena, self, head_symbols, tail_symbols) ==
  LET head_nodes == find_nodes_having_all_symbols(arena, self, head_symbols)
      tail_nodes == find_nodes_having_all_symbols(arena, self, tail_symbols)
  IN CollapseFrom(arena, head_nodes, tail_nodes, 1)

RECURSIVE get_leafs(_, _)
RECURSIVE LeafsOfChildrenFrom(_, _, _)
get_leafs(arena, self) ==
  IF Len(arena[self].children) = 0 THEN <<self>>
  ELSE LeafsOfChildrenFrom(arena, arena[self].children, 1)

LeafsOfChildrenFrom(arena, children, i) ==
  IF i > Len(children) THEN <<>>
  ELSE get_leafs(arena, children[i]) \o LeafsOfChildrenFrom(arena, children, i + 1)

\* ------------------------------------------------------------------------
\* Inputs
\* ------------------------------------------------------------------------
MaxPossible == 3
MaxCollapses == 2
MaxFrames == 3

\* the numbers of nested constructor calls the interpreter can have frames
\* for when the constructor is called
Frames == 0..MaxFrames

Variant3(a, b, c) == <<Attribute(A, a), Attribute(B, b), Attribute(C, c)>>

\* the example of the class docstring
variant_1 == Variant3(True, True, False)
variant_2 == Variant3(True, False, True)
variant_3 == Variant3(False, True, True)
part_1 == Part("Part 1", And(Sym(B), Or(Sym(A), Sym(C))))
part_2 == Part("Part 2", And(Sym(C), Or(Sym(A), Sym(B))))
part_3 == Part("Part 3", And(Sym(A), Not(Sym(B))))

ExampleOrder == <<<<A>>, <<B>>, <<C>>>>
ExamplePossible == <<variant_1, variant_2, variant_3>>
ExampleConditionals == <<part_1, part_2>>

SymbolOrders ==
  { <<<<A>>, <<B>>, <<C>>>>,
    <<<<A>>, <<B, C>>>>,
    <<<<A, B>>, <<C>>>>,
    <<<<A, B, C>>>>,
    <<<<C>>, <<A>>, <<B>>>>,
    <<<<B, A>>, <<C>>>>,
    <<<<A>>, <<B>>>>,
    <<<<B>>, <<C>>>> }

\* possible variants are drawn from the variants that assign every symbol
\* and from some that leave symbols unset
VariantPool ==
  << variant_1, variant_2, variant_3,
     Variant3(False, False, False), Variant3(False, False, True),
     Variant3(True, True, True),
     Variant3(True, True, None), Variant3(True, None, None),
     Variant3(False, None, True),
     <<Attribute(A, True), Attribute(B, False)>>,
     <<Attribute(B, True), Attribute(A, False)>>,
     <<Attribute(B, True), Attribute(C, False)>> >>

RECURSIVE PickFrom(_, _, _)
PickFrom(pool, chosen, i) ==
  IF i > Len(pool) THEN <<>>
  ELSE (IF i \in chosen THEN <<pool[i]>> ELSE <<>>) \o PickFrom(pool, chosen, i + 1)

PossibleVariantLists ==
  { PickFrom(VariantPool, chosen, 1) :
      chosen \in {S \in SUBSET DOMAIN VariantPool : Cardinality(S) <= MaxPossible} }

ConditionalLists == { <<part_1, part_2>>, <<part_2, part_1, part_3>>, <<>> }

\* ------------------------------------------------------------------------
\* State
\* ------------------------------------------------------------------------
VARIABLES
  symbol_order,       \* argument of the constructor
  possible_variants,  \* argument of the constructor
  all_conditionals,   \* argument of the constructor
  tree,               \* the arena of VariantNodes; <<>> before construction
  collapses,          \* number of collapse calls made on the root
  condition,          \* Condition under test
  variant,            \* Variant under test
  result,             \* result of Condition.check, "unset" before the call
  call                \* the Variant method called last and its arguments

vars == <<symbol_order, possible_variants, all_conditionals, tree, collapses,
          condition, variant, result, call>>

Root == 1

Nodes == DOMAIN tree

RECURSIVE ReachableFrom(_, _)
ReachableFrom(arena, n) ==
  {n} \cup UNION {ReachableFrom(arena, arena[n].children[i]) :
                    i \in DOMAIN arena[n].children}

Reachable == IF tree = <<>> THEN {} ELSE ReachableFrom(tree, Root)

\* ------------------------------------------------------------------------
\* Tree construction and collapse
\* ------------------------------------------------------------------------
NoCall == [method |-> "none"]

Init ==
  /\ symbol_order \in SymbolOrders
  /\ possible_variants \in PossibleVariantLists
  /\ all_conditionals \in ConditionalLists
  /\ tree = <<>>
  /\ collapses = 0
  /\ condition = Sym(A)
  /\ variant = <<>>
  /\ result = "unset"
  /\ call = NoCall

\* tree = VariantNode([], create_root_variant(symbol_order), symbol_order,
\*                    possible_variants, all_conditionals); a call that raises
\* leaves no tree
Construct ==
  /\ tree = <<>>
  /\ \E frames \in Frames :
       \E built \in {NewNode(<<>>, <<>>, create_root_variant(symbol_order),
                              symbol_order, possible_variants, all_conditionals,
                              frames)} :
          tree' = IF Raised(built) THEN <<>> ELSE built
  /\ UNCHANGED <<symbol_order, possible_variants, all_conditionals, collapses,
                 condition, variant, result, call>>

\* the symbol lists a caller can name: the groups of the order, the labels
\* present in the tree and the single symbols of the order, which are labels
\* of no node where the order has wider groups
CollapseArguments ==
  Range(symbol_order) \cup {tree[n].current_symbols : n \in Reachable \ {Root}}
    \cup {<<Flatten(symbol_order)[i]>> : i \in DOMAIN Flatten(symbol_order)}

\* tree.collapse(head_symbols, tail_symbols)
Collapse(head_symbols, tail_symbols) ==
  /\ tree # <<>>
  /\ collapses < MaxCollapses
  /\ tree' = collapse(tree, Root, head_symbols, tail_symbols)
  /\ collapses' = collapses + 1
  /\ UNCHANGED <<symbol_order, possible_variants, all_conditionals,
                 condition, variant, result, call>>

Next ==
  \/ Construct
  \/ \E head_symbols \in CollapseArguments, tail_symbols \in CollapseArguments :
        Collapse(head_symbols, tail_symbols)

Spec == Init /\ [][Next]_vars

\* ------------------------------------------------------------------------
\* Condition.check on its own
\* ------------------------------------------------------------------------
Literals == {Sym(s) : s \in Symbols} \cup {Not(Sym(s)) : s \in Symbols}

BinaryConditions ==
  {And(l, r) : l \in Literals, r \in Literals}
    \cup {Or(l, r) : l \in Literals, r \in Literals}

\* conditions in which an OR occurs twice below an AND, where And keeps one
RepeatingConditions ==
  { And(Or(Sym(A), Sym(B)), Or(Sym(B), Sym(A))),
    And(And(Not(Sym(A)), Or(Sym(B), Sym(C))), Or(Sym(B), Sym(C))),
    And(Or(Sym(A), Sym(B)), Or(And(Or(Sym(A), Sym(B)), Sym(C)), Sym(B))) }

\* conditions built from AND, OR and NOT over the symbols, up to two
\* operators deep, and the conditions above
Conditions ==
  Literals \cup BinaryConditions
    \cup {And(l, b) : l \in Literals, b \in BinaryConditions}
    \cup {Or(l, b) : l \in Literals, b \in BinaryConditions}
    \cup {Not(b) : b \in BinaryConditions}
    \cup RepeatingConditions

SymbolLists == { <<>>, <<A>>, <<B>>, <<C>>, <<A, B>>, <<A, C>>, <<B, C>>, <<A, B, C>> }

\* variants over the symbol lists, every attribute True, False or None
CheckVariants ==
  UNION { { [i \in DOMAIN syms |-> Attribute(syms[i], values[i])] :
              values \in [DOMAIN syms -> OptBool] } : syms \in SymbolLists }

InitCheck ==
  /\ condition \in Conditions
  /\ variant \in CheckVariants
  /\ result = "unset"
  /\ symbol_order = <<>>
  /\ possible_variants = <<>>
  /\ all_conditionals = <<>>
  /\ tree = <<>>
  /\ collapses = 0
  /\ call = NoCall

\* result = Condition(condition).check(variant)
Check ==
  /\ result = "unset"
  /\ result' = IF check(condition, variant) THEN True ELSE False
  /\ UNCHANGED <<symbol_order, possible_variants, all_conditionals, tree,
                 collapses, condition, variant, call>>

NextCheck == Check

SpecCheck == InitCheck /\ [][NextCheck]_vars

\* ------------------------------------------------------------------------
\* Properties
\* ------------------------------------------------------------------------
Built == tree # <<>> /\ collapses = 0

\* the (variant, conditionals) pairs of the leaves, in get_leafs() order
LeafPairs(arena) ==
  LET leafs == get_leafs(arena, Root)
  IN [i \in DOMAIN leafs |-> <<arena[leafs[i]].variant, arena[leafs[i]].conditionals>>]

ExampleInputs ==
  /\ symbol_order = ExampleOrder
  /\ possible_variants = ExamplePossible
  /\ all_conditionals = ExampleConditionals

\* C1 as stated: the example tree has exactly 3 leaves and get_leafs() returns
\* them as {A:T,B:T,C:F} with [Part1], then {A:T,B:F,C:T} with [Part2], then
\* {A:F,B:T,C:T} with [Part1, Part2].
C1_ExampleLeavesAsStated ==
  (Built /\ ExampleInputs) =>
     LeafPairs(tree) = << <<variant_1, <<part_1>>>>,
                          <<variant_2, <<part_2>>>>,
                          <<variant_3, <<part_1, part_2>>>> >>

\* C1 amended: the example tree has exactly 3 leaves, one per possible variant,
\* each with the stated conditionals, and get_leafs() returns them with the
\* False branch first: {A:F,B:T,C:T} with [Part1, Part2], then {A:T,B:F,C:T}
\* with [Part2], then {A:T,B:T,C:F} with [Part1].
C1_ExampleLeaves ==
  (Built /\ ExampleInputs) =>
     LeafPairs(tree) = << <<variant_3, <<part_1, part_2>>>>,
                          <<variant_2, <<part_2>>>>,
                          <<variant_1, <<part_1>>>> >>

C1_Witness == Built /\ ExampleInputs /\ Len(get_leafs(tree, Root)) = 3

\* the symbols that occur in a boolean expression
RECURSIVE FreeSymbols(_)
FreeSymbols(e) ==
  CASE e[1] = "sym" -> {e[2]}
    [] e[1] = "not" -> FreeSymbols(e[2])
    [] OTHER -> FreeSymbols(e[2]) \cup FreeSymbols(e[3])

\* the truth value of a boolean expression under a total assignment
RECURSIVE Eval(_, _)
Eval(e, assignment) ==
  CASE e[1] = "sym" -> assignment[e[2]] = True
    [] e[1] = "not" -> ~Eval(e[2], assignment)
    [] e[1] = "and" -> Eval(e[2], assignment) /\ Eval(e[3], assignment)
    [] e[1] = "or"  -> Eval(e[2], assignment) \/ Eval(e[3], assignment)

AttributeSymbols(v) == {v[i].symbol : i \in DOMAIN v}

Checked == result # "unset"

\* C5: for a variant that assigns exactly the free symbols of the condition,
\* check(variant) is the truth value of the condition under that assignment.
C5_CheckIsTruthValue ==
  (/\ Checked
   /\ AttributeSymbols(variant) = FreeSymbols(condition)
   /\ DOMAIN to_dict(variant) = FreeSymbols(condition))
    => (result = True <=> Eval(condition, to_dict(variant)))

\* the condition can be made true by some assignment of its symbols that
\* keeps the values the variant has assigned
Satisfiable(e, v) ==
  \E assignment \in [FreeSymbols(e) \cup DOMAIN to_dict(v) -> {True, False}] :
     /\ \A s \in DOMAIN to_dict(v) : assignment[s] = to_dict(v)[s]
     /\ Eval(e, assignment)

\* C6: for a partial variant with at least one assigned attribute,
\* check(variant) is true exactly when the condition is satisfiable under the
\* assigned values; B & (A | C) checks True for {A:None,B:True,C:None}.
C6_CheckIsSatisfiability ==
  (Checked /\ ~is_empty(variant)) =>
     /\ (result = True <=> Satisfiable(condition, variant))
     /\ (condition = part_1.condition /\ variant = Variant3(None, True, None))
          => result = True

\* ---- properties of the constructed tree ----

RECURSIVE Depth(_, _)
Depth(arena, n) == IF arena[n].parent = NoNode THEN 0 ELSE 1 + Depth(arena, arena[n].parent)

FlatSymbols == Range(Flatten(symbol_order))

\* the symbols of the first i groups of the order
PrefixSymbols(i) == UNION {Range(symbol_order[j]) : j \in 1..i}

GroupsDisjoint ==
  \A i, j \in DOMAIN symbol_order :
     i # j => Range(symbol_order[i]) \cap Range(symbol_order[j]) = {}

\* every possible variant assigns a value to exactly the symbols of the order
PossibleAssignExactlyOrder ==
  \A k \in DOMAIN possible_variants :
     /\ AttributeSymbols(possible_variants[k]) = FlatSymbols
     /\ DOMAIN to_dict(possible_variants[k]) = FlatSymbols

Agrees(p, a) == \A s \in DOMAIN a : to_dict(p)[s] = a[s]

NodesAt(i, a) == {n \in Reachable : Depth(tree, n) = i /\ to_dict(tree[n].variant) = a}

\* the nodes of a depth are exactly the restrictions of the possible variants
PrunedEnumerationExact ==
  \A i \in DOMAIN symbol_order :
     \A a \in [PrefixSymbols(i) -> {True, False}] :
        Cardinality(NodesAt(i, a)) =
          IF \E k \in DOMAIN possible_variants : Agrees(possible_variants[k], a)
          THEN 1 ELSE 0

PossibleDicts == {to_dict(possible_variants[k]) : k \in DOMAIN possible_variants}

LeafDicts ==
  LET leafs == get_leafs(tree, Root)
  IN {to_dict(tree[leafs[i]].variant) : i \in DOMAIN leafs}

LeavesMatchPossible ==
  /\ LeafDicts = PossibleDicts
  /\ Len(get_leafs(tree, Root)) = Cardinality(PossibleDicts)

C2_Precondition == Built /\ GroupsDisjoint /\ PossibleAssignExactlyOrder

\* C2 as stated: under the precondition, a node of depth i with variant a
\* exists iff some possible variant agrees with a, at most one such node
\* exists, and the leaves correspond one-to-one to the distinct possible
\* variants.
C2_PrunedExactAsStated ==
  C2_Precondition => (PrunedEnumerationExact /\ LeavesMatchPossible)

\* C2 amended: the same, the correspondence of the leaves being claimed for a
\* non-empty list of possible variants; with an empty list the root is the
\* only leaf.
C2_PrunedExact ==
  C2_Precondition =>
     /\ PrunedEnumerationExact
     /\ possible_variants # <<>> => LeavesMatchPossible
     /\ possible_variants = <<>> => get_leafs(tree, Root) = <<Root>>

C2_Witness ==
  /\ C2_Precondition
  /\ Cardinality(PossibleDicts) = 3
  /\ Len(symbol_order) = 3
  /\ Cardinality(Reachable) > 6

\* the sub-list of all_conditionals whose condition checks true for v
Satisfied(v) ==
  LET Holds(c) == check(get_condition(c), v)
  IN SelectSeq(all_conditionals, Holds)

AssignsAll(v) == FlatSymbols \subseteq DOMAIN to_dict(v)

\* C3: after construction every node is either final, with no children and
\* exactly the satisfied conditionals in input order, or interior with an
\* empty conditionals list.
C3_FinalOrInterior ==
  Built =>
    \A n \in Nodes :
       IF AssignsAll(tree[n].variant)
       THEN /\ tree[n].children = <<>>
            /\ tree[n].conditionals = Satisfied(tree[n].variant)
       ELSE tree[n].conditionals = <<>>

C3_Witness ==
  /\ Built
  /\ \E n \in Nodes : AssignsAll(tree[n].variant) /\ Len(tree[n].conditionals) = 2
  /\ \E n \in Nodes : AssignsAll(tree[n].variant) /\ Len(tree[n].conditionals) = 1
                        /\ Len(all_conditionals) = 3
  /\ \E n \in Nodes : ~AssignsAll(tree[n].variant) /\ tree[n].children = <<>>

\* the integer whose most-significant-bit-first rendering is the value
\* vector of v over the symbols syms
RECURSIVE BitsValue(_, _, _)
BitsValue(v, syms, j) ==
  IF j > Len(syms) THEN 0
  ELSE (IF to_dict(v)[syms[j]] = True THEN 2 ^ (Len(syms) - j) ELSE 0)
       + BitsValue(v, syms, j + 1)

ChildrenAscending(n) ==
  LET ch == tree[n].children
  IN \A i, j \in DOMAIN ch :
        i < j => BitsValue(tree[ch[i]].variant, tree[ch[i]].current_symbols, 1)
                   < BitsValue(tree[ch[j]].variant, tree[ch[j]].current_symbols, 1)

\* of two leaves, the one get_leafs() returns first has False where they
\* first differ, in the order of the symbols of symbol_order
LeavesLeftToRight ==
  LET leafs == get_leafs(tree, Root)
      flat == Flatten(symbol_order)
      val(i, p) == IF flat[p] \in DOMAIN to_dict(tree[leafs[i]].variant)
                   THEN to_dict(tree[leafs[i]].variant)[flat[p]] ELSE None
  IN \A i, j \in DOMAIN leafs :
        i < j => \E p \in DOMAIN flat :
                    /\ val(i, p) = False /\ val(j, p) = True
                    /\ \A q \in 1..(p - 1) : val(i, q) = val(j, q)

LeafVariants ==
  LET leafs == get_leafs(tree, Root)
  IN [i \in DOMAIN leafs |-> tree[leafs[i]].variant]

\* C4: the children of every node are in ascending order of the integer of
\* their value vector over the symbols they set, so False precedes True;
\* get_leafs() returns the leaves left to right, in the example
\* {A:F,B:T,C:T}, {A:T,B:F,C:T}, {A:T,B:T,C:F}.
C4_ChildOrder ==
  Built =>
    /\ \A n \in Nodes : ChildrenAscending(n)
    /\ LeavesLeftToRight
    /\ ExampleInputs => LeafVariants = <<variant_3, variant_2, variant_1>>

C4_Witness ==
  /\ Built
  /\ \E n \in Nodes : Len(tree[n].children) = 3 /\ Len(tree[tree[n].children[1]].current_symbols) = 2
  /\ Len(get_leafs(tree, Root)) = 3

\* ---- properties of collapse ----

\* the multiset of the (variant, conditionals) pairs of the leaves
LeafBag(arena) ==
  LET pairs == LeafPairs(arena)
  IN [x \in Range(pairs) |-> Cardinality({i \in DOMAIN pairs : pairs[i] = x})]

LeavesKept ==
  /\ Len(get_leafs(tree', Root)) = Len(get_leafs(tree, Root))
  /\ LeafBag(tree') = LeafBag(tree)

\* a leaf whose variant leaves symbols of the order unset
HasDeadEnd(arena) ==
  \E n \in ReachableFrom(arena, Root) :
     arena[n].children = <<>> /\ ~AssignsAll(arena[n].variant)

\* C7: every collapse call on the root keeps the number of leaves and the
\* multiset of their (variant, conditionals) pairs, also in trees with
\* non-final dead-end leaves.
C7_LeavesInvariant == [][tree # <<>> => LeavesKept]_vars

\* the same for the trees in which every leaf is final
LeavesInvariantWithoutDeadEnds ==
  [][(tree # <<>> /\ ~HasDeadEnd(tree)) => LeavesKept]_vars

\* the tree below n as a value: labels, variants, conditionals and the
\* children in order
RECURSIVE Shape(_, _)
Shape(arena, n) ==
  [current_symbols |-> arena[n].current_symbols,
   variant |-> arena[n].variant,
   conditionals |-> arena[n].conditionals,
   children |-> [i \in DOMAIN arena[n].children |-> Shape(arena, arena[n].children[i])]]

\* parent pointers agree with the children lists below n
RECURSIVE ParentsConsistent(_, _)
ParentsConsistent(arena, n) ==
  \A i \in DOMAIN arena[n].children :
     /\ arena[arena[n].children[i]].parent = n
     /\ ParentsConsistent(arena, arena[n].children[i])

\* the order with the groups i..j merged into one group
MergedOrder(order, i, j) ==
  SubSeq(order, 1, i - 1)
    \o <<Flatten(SubSeq(order, i, j))>>
    \o SubSeq(order, j + 1, Len(order))

BuiltWith(order) ==
  NewNode(<<>>, <<>>, create_root_variant(order), order,
          possible_variants, all_conditionals, Len(order))

CollapsedLikeMerged(i, j) ==
  /\ Shape(tree', Root) = Shape(BuiltWith(MergedOrder(symbol_order, i, j)), Root)
  /\ ParentsConsistent(tree', Root)

\* C8: building with separate groups and collapsing a head group into a
\* later tail group gives the tree built with the groups from head to tail
\* merged into one.
C8_CollapseEqualsMerged ==
  [][\A i, j \in DOMAIN symbol_order :
       (/\ i < j
        /\ Built
        /\ tree' = collapse(tree, Root, symbol_order[i], symbol_order[j]))
         => CollapsedLikeMerged(i, j)]_vars

\* the same for head, tail and the groups between them one symbol wide, in
\* trees in which every leaf is final
CollapseEqualsMergedNarrow ==
  [][\A i, j \in DOMAIN symbol_order :
       (/\ i < j
        /\ Built /\ ~HasDeadEnd(tree)
        /\ \A k \in i..j : Len(symbol_order[k]) = 1
        /\ tree' = collapse(tree, Root, symbol_order[i], symbol_order[j]))
         => CollapsedLikeMerged(i, j)]_vars

\* C9: a collapse call leaves the variant and the conditionals list of every
\* node object as they were; no node is created or destroyed.
C9_ContentUnchanged ==
  [][tree # <<>> =>
       /\ DOMAIN tree' = DOMAIN tree
       /\ \A n \in DOMAIN tree :
            /\ tree'[n].variant = tree[n].variant
            /\ tree'[n].conditionals = tree[n].conditionals]_vars

\* some collapse has rearranged the tree and relabelled a node
Rearranged ==
  /\ tree # <<>>
  /\ collapses > 0
  /\ \E n \in Reachable : Len(tree[n].current_symbols) > 1
  /\ \E n \in Nodes : n \notin Reachable
  /\ \E n \in Reachable : tree[n].conditionals # <<>>

C9_Witness == Rearranged

\* the leaves present before and after keep their relative order
SameRelativeOrder(before, after) ==
  \A i, j \in DOMAIN after :
     (i < j /\ after[i] \in Range(before) /\ after[j] \in Range(before))
       => IndexOf(before, after[i]) < IndexOf(before, after[j])

LeafOrderKept ==
  /\ \A i \in DOMAIN get_leafs(tree', Root) :
        tree'[get_leafs(tree', Root)[i]].children = <<>>
  /\ SameRelativeOrder(get_leafs(tree, Root), get_leafs(tree', Root))

\* C10: after a collapse call on the root of a constructed tree get_leafs()
\* returns only childless nodes, and the leaves that exist before and after
\* keep their relative left-to-right order.
C10_LeafOrderStable == [][Built => LeafOrderKept]_vars

\* the same for the trees in which every leaf is final
LeafOrderStableWithoutDeadEnds ==
  [][(tree # <<>> /\ ~HasDeadEnd(tree)) => LeafOrderKept]_vars

\* ------------------------------------------------------------------------
\* Degenerate and non-matching collapses
\* ------------------------------------------------------------------------
\* C11: collapse(g, g) on the root leaves the tree as it was, for a group
\* g of any width: every node keeps its current_symbols, its children list
\* (members and order) and its parent, so the leaf sequence is unchanged.
C11_DegenerateCollapseNoOp ==
  [][\A g \in CollapseArguments :
       (tree # <<>> /\ tree' = collapse(tree, Root, g, g)
          /\ collapses' = collapses + 1)
         => /\ \A n \in Nodes :
                 /\ tree'[n].current_symbols = tree[n].current_symbols
                 /\ tree'[n].children = tree[n].children
                 /\ tree'[n].parent = tree[n].parent
            /\ get_leafs(tree', Root) = get_leafs(tree, Root)]_vars

\* the same for groups of one symbol only, on a tree that was not collapsed
\* before
DegenerateCollapseNoOpNarrow ==
  [][\A g \in CollapseArguments :
       (Built /\ Len(g) = 1 /\ tree' = collapse(tree, Root, g, g)
          /\ collapses' = collapses + 1)
         => tree' = tree]_vars

LabelledNodes(g) == {n \in Reachable : tree[n].current_symbols = g}

RECURSIVE AncestorsOf(_, _)
AncestorsOf(arena, n) ==
  IF arena[n].parent = NoNode THEN {}
  ELSE {arena[n].parent} \cup AncestorsOf(arena, arena[n].parent)

\* the walk from a tail node towards the root meets no head node; the walk
\* starts at the tail node itself, as _get_path_to_parent_node does
NoHeadAbove(head_symbols, tail_symbols) ==
  \A t \in LabelledNodes(tail_symbols) :
     ({t} \cup AncestorsOf(tree, t)) \cap LabelledNodes(head_symbols) = {}

NothingToCollapse(head_symbols, tail_symbols) ==
  \/ LabelledNodes(head_symbols) = {}
  \/ LabelledNodes(tail_symbols) = {}
  \/ NoHeadAbove(head_symbols, tail_symbols)

\* a collapse whose head group labels no node, or whose tail group labels no
\* node, or whose tail nodes meet no head node on their way to the root,
\* themselves included, leaves the tree unchanged
ForeignCollapseNoOpInclusive ==
  [][(collapses' = collapses + 1 /\ tree' # tree)
       => \A h \in CollapseArguments, t \in CollapseArguments :
             NothingToCollapse(h, t) => tree' # collapse(tree, Root, h, t)]_vars

\* a collapse of [B] into [C] was applied to the tree built with the order
\* [[A], [B, C]], where the tail group labels nodes below the first level
ForeignCollapseApplied ==
  /\ collapses > 0
  /\ symbol_order = << <<A>>, <<B, C>> >>
  /\ tree = BuiltWith(symbol_order)
  /\ LabelledNodes(<<B>>) = {}
  /\ LabelledNodes(<<C>>) = {}
  /\ LabelledNodes(<<B, C>>) # {}

\* with the tail node itself not counted: only its proper ancestors
NothingToCollapseProper(head_symbols, tail_symbols) ==
  \/ LabelledNodes(head_symbols) = {}
  \/ LabelledNodes(tail_symbols) = {}
  \/ \A t \in LabelledNodes(tail_symbols) :
        AncestorsOf(tree, t) \cap LabelledNodes(head_symbols) = {}

ForeignCollapseNoOpProper ==
  [][(collapses' = collapses + 1 /\ tree' # tree)
       => \A h \in CollapseArguments, t \in CollapseArguments :
             (h # t /\ NothingToCollapseProper(h, t))
               => tree' # collapse(tree, Root, h, t)]_vars

\* C12: a collapse whose head group labels no node, or whose tail group
\* labels no node, or none of whose tail nodes has a head node among its
\* ancestors, leaves the children lists, the parent pointers and the labels
\* of all nodes unchanged.
C12_NoHeadAmongAncestorsNoOp ==
  [][(collapses' = collapses + 1 /\ tree' # tree)
       => \A h \in CollapseArguments, t \in CollapseArguments :
             NothingToCollapseProper(h, t) => tree' # collapse(tree, Root, h, t)]_vars


\* ------------------------------------------------------------------------
\* The methods of Variant on their own
\* ------------------------------------------------------------------------
\* attribute lists in the sorted order of their symbols and in other orders
AttributeOrders ==
  SymbolLists \cup { <<B, A>>, <<C, B>>, <<C, A, B>>, <<B, C, A>> }

Variants ==
  UNION { { [i \in DOMAIN syms |-> Attribute(syms[i], values[i])] :
              values \in [DOMAIN syms -> OptBool] } : syms \in AttributeOrders }

MaxValues == 2

\* one or two different symbols of the variant, in any order
NextSymbolLists(self) ==
  {<<s>> : s \in AttributeSymbols(self)}
    \cup {p \in AttributeSymbols(self) \X AttributeSymbols(self) : p[1] # p[2]}

\* up to MaxValues value combinations for k symbols
ValueLists(k) ==
  UNION { [1..n -> [1..k -> {True, False}]] : n \in 0..MaxValues }

InitVariant ==
  /\ variant \in Variants
  /\ call = NoCall
  /\ result = "unset"
  /\ condition = Sym(A)
  /\ symbol_order = <<>>
  /\ possible_variants = <<>>
  /\ all_conditionals = <<>>
  /\ tree = <<>>
  /\ collapses = 0

\* result = variant.is_derived_from_or_equal(other_variant)
IsDerivedFromOrEqual(other_variant) ==
  /\ call.method = "none"
  /\ call' = [method |-> "is_derived_from_or_equal", other_variant |-> other_variant]
  /\ result' = IF is_derived_from_or_equal(variant, other_variant) THEN True ELSE False
  /\ UNCHANGED <<symbol_order, possible_variants, all_conditionals, tree,
                 collapses, condition, variant>>

\* result = variant.is_possible(possible_variants)
IsPossible(variants) ==
  /\ call.method = "none"
  /\ call' = [method |-> "is_possible"]
  /\ possible_variants' = variants
  /\ result' = IF is_possible(variant, variants) THEN True ELSE False
  /\ UNCHANGED <<symbol_order, all_conditionals, tree, collapses, condition,
                 variant>>

\* result = variant.derive_variants(next_symbols, values), the attributes of
\* variant being objects of their own: object i is the i-th attribute.  The
\* call keeps the receiver as it was before, the objects as they are after
\* and the attribute objects of the receiver and of the variants returned;
\* result and variant are these read by value after the call
DeriveVariants(next_symbols, values) ==
  /\ call.method = "none"
  /\ \E attributes \in {[i \in DOMAIN variant |-> i]} :
     \E derived \in {DeriveVariantsFrom(variant, attributes, next_symbols, values, 1, <<>>)} :
        /\ call' = [method |-> "derive_variants", next_symbols |-> next_symbols,
                    values |-> values, receiver |-> variant,
                    attributes |-> attributes, objects |-> derived.objects,
                    new_variants |-> derived.new_variants]
        /\ result' = [i \in DOMAIN derived.new_variants |->
                        ValuesOf(derived.objects, derived.new_variants[i])]
        /\ variant' = ValuesOf(derived.objects, attributes)
  /\ UNCHANGED <<symbol_order, possible_variants, all_conditionals, tree,
                 collapses, condition>>

NextVariant ==
  \/ \E other_variant \in Variants : IsDerivedFromOrEqual(other_variant)
  \/ \E variants \in PossibleVariantLists : IsPossible(variants)
  \/ \E next_symbols \in NextSymbolLists(variant) :
       \E values \in ValueLists(Len(next_symbols)) :
          DeriveVariants(next_symbols, values)

SpecVariant == InitVariant /\ [][NextVariant]_vars

CalledIsDerived == call.method = "is_derived_from_or_equal"
CalledIsPossible == call.method = "is_possible"
CalledDerive == call.method = "derive_variants"


\* ------------------------------------------------------------------------
\* Pruning and refinement
\* ------------------------------------------------------------------------
\* p has the identical value for every attribute v has set
HasSetValuesOf(p, v) ==
  \A i \in DOMAIN v :
     v[i].value # None
       => \E j \in DOMAIN p :
             p[j].symbol = v[i].symbol /\ p[j].value = v[i].value

\* C13: is_possible(possible_variants) is true exactly when some possible
\* variant has the identical value for every attribute the variant has
\* set; for an empty list it is false.
C13_PossibleIffAgreeing ==
  CalledIsPossible
    => /\ (result = True)
            <=> \E i \in DOMAIN possible_variants :
                   HasSetValuesOf(possible_variants[i], variant)
       /\ possible_variants = <<>> => result = False

\* the same where the variant and the possible variants have the same symbols
PossibleIffAgreeingSameSymbols ==
  (CalledIsPossible
     /\ \A i \in DOMAIN possible_variants :
           AttributeSymbols(possible_variants[i]) = AttributeSymbols(variant))
    => ((result = True)
          <=> \E i \in DOMAIN possible_variants :
                 HasSetValuesOf(possible_variants[i], variant))


\* the same where every possible variant has all the symbols of the variant
PossibleIffAgreeingCoveredSymbols ==
  (CalledIsPossible
     /\ \A i \in DOMAIN possible_variants :
           AttributeSymbols(variant) \subseteq AttributeSymbols(possible_variants[i]))
    => ((result = True)
          <=> \E i \in DOMAIN possible_variants :
                 HasSetValuesOf(possible_variants[i], variant))


\* C14 as stated: is_possible is true exactly when the variant itself is
\* derived from or equal to some possible variant.
C14_PossibleIffSelfDerived ==
  CalledIsPossible
    => ((result = True)
          <=> \E i \in DOMAIN possible_variants :
                 is_derived_from_or_equal(variant, possible_variants[i]))

\* C14: is_possible is true exactly when some possible variant is derived
\* from or equal to the variant.
C14_PossibleIffSomeDerived ==
  CalledIsPossible
    => ((result = True)
          <=> \E i \in DOMAIN possible_variants :
                 is_derived_from_or_equal(possible_variants[i], variant))

\* a partial variant is possible although it is derived from none of the
\* possible variants
C14_Witness ==
  /\ CalledIsPossible
  /\ result = True
  /\ ~is_empty(variant)
  /\ ~is_final(variant, <<A, B, C>>)
  /\ Len(possible_variants) > 1
  /\ \A i \in DOMAIN possible_variants :
        ~is_derived_from_or_equal(variant, possible_variants[i])


SameSymbols(v, w) == AttributeSymbols(v) = AttributeSymbols(w)

Symbols_of(v) == [i \in DOMAIN v |-> v[i].symbol]

\* C15: for two variants over the same symbols, their attribute lists in
\* any order, self.is_derived_from_or_equal(other) is true exactly when
\* every attribute of other that has a value has the identical value for
\* the same symbol in self; the unset attributes of other are ignored.
C15_RefinementBySymbol ==
  (CalledIsDerived /\ SameSymbols(variant, call.other_variant))
    => ((result = True) <=> HasSetValuesOf(variant, call.other_variant))

\* a variant refines another whose attributes are listed in another order
\* and partly unset
C15_Witness ==
  /\ CalledIsDerived
  /\ SameSymbols(variant, call.other_variant)
  /\ Symbols_of(variant) # Symbols_of(call.other_variant)
  /\ Len(variant) = 3
  /\ result = True
  /\ ~is_empty(call.other_variant)
  /\ \E i \in DOMAIN call.other_variant : call.other_variant[i].value = None

\* C16: over one set of symbols is_derived_from_or_equal is reflexive,
\* antisymmetric up to variant equality and transitive.
C16_PartialOrder ==
  (CalledIsDerived /\ SameSymbols(variant, call.other_variant))
    => /\ VariantEq(variant, call.other_variant) => result = True
       /\ (result = True /\ is_derived_from_or_equal(call.other_variant, variant))
            => VariantEq(variant, call.other_variant)
       /\ result = True
            => \A w \in Variants :
                  (SameSymbols(w, variant)
                     /\ is_derived_from_or_equal(call.other_variant, w))
                    => is_derived_from_or_equal(variant, w)

\* a strict refinement of a variant that strictly refines a third one
C16_Witness ==
  /\ CalledIsDerived
  /\ SameSymbols(variant, call.other_variant)
  /\ Symbols_of(variant) # Symbols_of(call.other_variant)
  /\ result = True
  /\ ~VariantEq(variant, call.other_variant)
  /\ \E w \in Variants :
        /\ SameSymbols(w, variant)
        /\ is_derived_from_or_equal(call.other_variant, w)
        /\ ~VariantEq(call.other_variant, w)


\* C17: over one set of symbols, a variant that is possible and derived
\* from or equal to a second variant makes the second variant possible too.
C17_PossibleIsMonotone ==
  (CalledIsPossible /\ result = True)
    => \A v2 \in Variants :
          (SameSymbols(v2, variant) /\ is_derived_from_or_equal(variant, v2))
            => is_possible(v2, possible_variants)

\* a possible variant that strictly refines another variant which has a
\* value itself
C17_Witness ==
  /\ CalledIsPossible
  /\ result = True
  /\ Len(possible_variants) > 1
  /\ \E v2 \in Variants :
        /\ SameSymbols(v2, variant)
        /\ is_derived_from_or_equal(variant, v2)
        /\ ~VariantEq(variant, v2)
        /\ ~is_empty(v2)

\* in a tree, as built and after collapses, the variant of every ancestor
\* of a node with a possible variant is possible
AncestorsPossible ==
  \A n \in Reachable :
     is_possible(tree[n].variant, possible_variants)
       => \A a \in AncestorsOf(tree, n) :
             is_possible(tree[a].variant, possible_variants)

\* C18: derive_variants(next_symbols, values) returns one new variant for
\* each element of values, in the order of values; the i-th has the
\* attributes of self, each symbol next_symbols[j] with the value
\* values[i][j] and every other attribute as in self; self and its attribute
\* objects are after the call as they were before, and no attribute object
\* of a result is an attribute object of self or of another result.
C18_DeriveVariants ==
  CalledDerive
    => /\ Len(result) = Len(call.values)
       /\ \A i \in DOMAIN call.values :
             /\ Symbols_of(result[i]) = Symbols_of(call.receiver)
             /\ \A j \in DOMAIN call.next_symbols :
                   \E k \in DOMAIN call.receiver :
                      /\ result[i][k].symbol = call.next_symbols[j]
                      /\ result[i][k].value = call.values[i][j]
             /\ \A k \in DOMAIN call.receiver :
                   call.receiver[k].symbol \notin Range(call.next_symbols)
                     => result[i][k] = call.receiver[k]
       /\ variant = call.receiver
       /\ \A k \in DOMAIN call.attributes :
             call.objects[call.attributes[k]] = call.receiver[k]
       /\ \A i \in DOMAIN call.new_variants :
             /\ Range(call.new_variants[i]) \cap Range(call.attributes) = {}
             /\ \A j \in DOMAIN call.new_variants :
                   i # j => Range(call.new_variants[i]) \cap Range(call.new_variants[j]) = {}

\* two different value combinations for two symbols given in another order
\* than the attributes, one of them set before, and an attribute left alone
C18_Witness ==
  /\ CalledDerive
  /\ Len(call.values) = 2
  /\ call.values[1] # call.values[2]
  /\ Len(call.next_symbols) = 2
  /\ call.next_symbols[1] > call.next_symbols[2]
  /\ Len(call.receiver) = 3
  /\ Len(call.objects) = 9
  /\ \E k \in DOMAIN call.receiver :
        /\ call.receiver[k].symbol \in Range(call.next_symbols)
        /\ call.receiver[k].value # None
        /\ result[1][k].value # call.receiver[k].value

\* the variants returned are, by value, the ones the tree construction takes
\* from derive_variants
DerivedByValue ==
  CalledDerive => result = derive_variants(call.receiver, call.next_symbols, call.values)

\* the receiver of a call is the same variant afterwards
ReceiverNotModified == [][call'.method # "none" => variant' = variant]_vars


\* ------------------------------------------------------------------------
\* Empty inputs
\* ------------------------------------------------------------------------
\* C19: Condition.check is True for every condition when no attribute of the
\* variant has a value.
C19_EmptyVariantChecks == (Checked /\ is_empty(variant)) => result = True

\* a conjunction with a negated symbol was checked against three unset
\* attributes
C19_Witness ==
  /\ Checked
  /\ is_empty(variant)
  /\ Len(variant) = 3
  /\ condition = And(Sym(A), Not(Sym(B)))

\* C20: with an empty possible_variants list and a non-empty symbol order the
\* tree is the root alone, without children and conditionals, and
\* get_leafs() is [root]; with an empty all_conditionals list every leaf has
\* empty conditionals.
C20_EmptyInputs ==
  (Built /\ symbol_order # <<>>)
    => /\ possible_variants = <<>>
            => /\ Len(tree) = 1
               /\ tree[Root].children = <<>>
               /\ tree[Root].conditionals = <<>>
               /\ get_leafs(tree, Root) = <<Root>>
       /\ all_conditionals = <<>>
            => LET leafs == get_leafs(tree, Root)
               IN \A i \in DOMAIN leafs : tree[leafs[i]].conditionals = <<>>

\* a root-only tree was built from conditionals and no possible variant
C20_Witness ==
  /\ Built
  /\ possible_variants = <<>>
  /\ all_conditionals # <<>>
  /\ Len(symbol_order) = 3

\* a tree with several final leaves was built without conditionals
EmptyConditionalsBuilt ==
  /\ Built
  /\ all_conditionals = <<>>
  /\ Len(get_leafs(tree, Root)) > 1
  /\ \A n \in Reachable : n # Root /\ tree[n].children = <<>>
        => is_final(tree[n].variant, Flatten(symbol_order))


\* ------------------------------------------------------------------------
\* Symbol orders that omit symbols
\* ------------------------------------------------------------------------
\* every possible variant assigns a value to each of its attributes, and the
\* order leaves out some of their symbols
OrderOmitsSymbols ==
  /\ possible_variants # <<>>
  /\ \A k \in DOMAIN possible_variants :
        /\ FlatSymbols \subseteq AttributeSymbols(possible_variants[k])
        /\ FlatSymbols # AttributeSymbols(possible_variants[k])
        /\ DOMAIN to_dict(possible_variants[k]) = AttributeSymbols(possible_variants[k])

\* C21: when the order omits symbols that the possible variants assign,
\* whichever they are, the nodes of the built tree are exactly the
\* restrictions of the possible variants to the prefixes of the order.
C21_PrunedWithOmittedSymbols ==
  (Built /\ GroupsDisjoint /\ OrderOmitsSymbols) => PrunedEnumerationExact

\* the same where every omitted symbol sorts after the symbols of the order
OmittedSymbolsSortLast ==
  \A k \in DOMAIN possible_variants :
     \A s \in AttributeSymbols(possible_variants[k]) \ FlatSymbols :
        \A t \in FlatSymbols : t < s

PrunedWithOmittedLastSymbols ==
  (Built /\ GroupsDisjoint /\ OrderOmitsSymbols /\ OmittedSymbolsSortLast)
    => PrunedEnumerationExact


ConditionSymbols ==
  UNION {FreeSymbols(get_condition(all_conditionals[i])) : i \in DOMAIN all_conditionals}

\* the conditionals whose condition is true for some choice of values of
\* the symbols v leaves open
SatisfiableWith(v) ==
  LET Holds(c) == Satisfiable(get_condition(c), v)
  IN SelectSeq(all_conditionals, Holds)

OmittedNeverAssigned ==
  \A n \in Reachable : AttributeSymbols(tree[n].variant) = FlatSymbols

FinalLeavesCarrySatisfiable ==
  \A n \in Reachable :
     AssignsAll(tree[n].variant)
       => tree[n].conditionals = SatisfiableWith(tree[n].variant)

\* C22: when the order omits symbols that occur in conditions, no node
\* assigns them and every final leaf carries exactly the conditionals that
\* are satisfiable together with the leaf's assignment.
C22_ConditionsOverOmittedSymbols ==
  (Built /\ GroupsDisjoint /\ ~(ConditionSymbols \subseteq FlatSymbols))
    => (OmittedNeverAssigned /\ FinalLeavesCarrySatisfiable)

NegationFree(e) == \A term \in to_dnf(e) : \A lit \in term : lit[2]

\* the same for conditionals without a negated symbol
ConditionsOverOmittedSymbolsPositive ==
  (Built /\ GroupsDisjoint /\ ~(ConditionSymbols \subseteq FlatSymbols)
     /\ \A i \in DOMAIN all_conditionals :
           NegationFree(get_condition(all_conditionals[i])))
    => (OmittedNeverAssigned /\ FinalLeavesCarrySatisfiable)


\* ------------------------------------------------------------------------
\* What collapse does to the compacted paths
\* ------------------------------------------------------------------------
\* the labels of the nodes of a path, which is listed tail first, joined
\* from its head down to its tail, each label as it is
RECURSIVE HeadToTailSymbols(_, _, _)
HeadToTailSymbols(arena, path, i) ==
  IF i < 1 THEN <<>>
  ELSE arena[path[i]].current_symbols \o HeadToTailSymbols(arena, path, i - 1)

\* the path from a tail node up to its head node, <<>> if there is none
PathToHead(n, head_symbols) ==
  LET head_nodes == find_nodes_having_all_symbols(tree, Root, head_symbols)
      path == get_path_to_parent_node(tree, n, head_nodes)
  IN IF path[Len(path)] \in Range(head_nodes) THEN path ELSE <<>>

\* C23: the tail of every compacted path is relabelled with the labels of
\* the path joined from head to tail, each in its original internal order.
C23_RelabelledHeadToTail ==
  [][collapses' = collapses + 1
       => \A h \in CollapseArguments, t \in CollapseArguments :
             tree' = collapse(tree, Root, h, t)
               => \A n \in LabelledNodes(t) :
                     LET path == PathToHead(n, h)
                     IN path # <<>>
                          => tree'[n].current_symbols
                               = HeadToTailSymbols(tree, path, Len(path))]_vars

\* the same for paths whose nodes are labelled with one symbol each
RelabelledHeadToTailNarrow ==
  [][collapses' = collapses + 1
       => \A h \in CollapseArguments, t \in CollapseArguments :
             tree' = collapse(tree, Root, h, t)
               => \A n \in LabelledNodes(t) :
                     LET path == PathToHead(n, h)
                     IN (path # <<>>
                           /\ \A i \in DOMAIN path :
                                 Len(tree[path[i]].current_symbols) = 1)
                          => tree'[n].current_symbols
                               = HeadToTailSymbols(tree, path, Len(path))]_vars


\* the head nodes above a node: its proper ancestors labelled head_symbols
HeadsAbove(n, head_symbols) == AncestorsOf(tree, n) \cap LabelledNodes(head_symbols)

\* the nodes strictly between an ancestor a and its descendant n
Between(a, n) == {m \in AncestorsOf(tree, n) : a \in AncestorsOf(tree, m)}

\* C24: after collapse(h, t) on the root every node labelled t below a node
\* labelled h is a child of that node's former parent and has it as its
\* parent, and the head and the nodes between are not reachable from the
\* root any more; also where several tail nodes share one head. Stated for
\* the tree that each collapse step enabled in a state leads to.
C24_TailsReattached ==
  (tree # <<>> /\ collapses < MaxCollapses)
    => \A h \in CollapseArguments, t \in CollapseArguments :
          (\E n \in LabelledNodes(t) : HeadsAbove(n, h) # {})
            => LET collapsed == collapse(tree, Root, h, t)
                   after == ReachableFrom(collapsed, Root)
               IN \A n \in LabelledNodes(t) : \A a \in HeadsAbove(n, h) :
                     /\ n \in Range(collapsed[tree[a].parent].children)
                     /\ collapsed[n].parent = tree[a].parent
                     /\ n \in after
                     /\ a \notin after
                     /\ \A m \in Between(a, n) : m \notin after

\* two tail nodes that were below one head, with a node between, hang
\* below the head's former parent, and the head is out of the tree
C24_Witness ==
  /\ collapses > 0
  /\ \E a \in Nodes \ Reachable :
        \E n1, n2 \in Reachable \cap ReachableFrom(tree, a) :
           /\ n1 # n2
           /\ tree[n1].parent = tree[a].parent
           /\ tree[n2].parent = tree[a].parent
           /\ n1 \notin Range(tree[a].children)
           /\ n2 \notin Range(tree[a].children)


\* the symbols that v assigns and w does not
NewlyAssigned(v, w) == DOMAIN to_dict(v) \ DOMAIN to_dict(w)

\* C29: in a tree built from create_root_variant(symbol_order) with pairwise
\* disjoint groups, as built and after any collapses on the root, the
\* symbols of the label of every node but the root are the symbols its
\* variant assigns and its parent's variant does not, and its variant is
\* derived from or equal to its parent's variant.
C29_LabelMatchesVariant ==
  (tree # <<>> /\ GroupsDisjoint)
    => \A n \in Reachable \ {Root} :
          /\ Range(tree[n].current_symbols)
               = NewlyAssigned(tree[n].variant, tree[tree[n].parent].variant)
          /\ is_derived_from_or_equal(tree[n].variant, tree[tree[n].parent].variant)

\* a node relabelled by a collapse over three levels hangs below the root
C29_Witness ==
  /\ collapses > 0
  /\ \E n \in Reachable :
        /\ tree[n].parent = Root
        /\ Len(tree[n].current_symbols) = 3
        /\ Depth(tree, n) = 1
  /\ \E n \in Nodes : n \notin Reachable /\ Len(tree[n].current_symbols) = 1


\* ------------------------------------------------------------------------
\* The minterm functions of the earlier draft
\* (src/python_algos/complexity/varianttree.py)
\* ------------------------------------------------------------------------
Min(S) == CHOOSE x \in S : \A y \in S : x <= y

\* sorted(list(S)) for a set of integers
RECURSIVE Sorted(_)
Sorted(S) == IF S = {} THEN <<>> ELSE <<Min(S)>> \o Sorted(S \ {Min(S)})

\* get_extended_minterms that clears the low bits and does not fill them in
get_extended_minterms_cleared(minterms, nof_irrelevant_symbols) ==
  Sorted({(minterms[i] \div 2 ^ nof_irrelevant_symbols) * 2 ^ nof_irrelevant_symbols :
            i \in DOMAIN minterms})

\* minterm >> n << n for every minterm, then every value of the n low bits
get_extended_minterms(minterms, nof_irrelevant_symbols) ==
  LET minterm_lsbs == 0..(2 ^ nof_irrelevant_symbols - 1)
      minterms_msbs ==
        {(minterms[i] \div 2 ^ nof_irrelevant_symbols) * 2 ^ nof_irrelevant_symbols :
           i \in DOMAIN minterms}
  IN Sorted({msb + lsb : msb \in minterms_msbs, lsb \in minterm_lsbs})

MaxMinterm == 7
MaxMinterms == 3
MaxIrrelevant == 3

\* lists of up to MaxMinterms integers from 0 to MaxMinterm, in any order and
\* with repetitions
MintermLists == UNION { [1..n -> 0..MaxMinterm] : n \in 0..MaxMinterms }

InitMinterms ==
  /\ call = NoCall
  /\ result = "unset"
  /\ condition = Sym(A)
  /\ variant = <<>>
  /\ symbol_order = <<>>
  /\ possible_variants = <<>>
  /\ all_conditionals = <<>>
  /\ tree = <<>>
  /\ collapses = 0

\* result = get_extended_minterms(minterms, nof_irrelevant_symbols)
GetExtendedMinterms(minterms, nof_irrelevant_symbols) ==
  /\ call.method = "none"
  /\ call' = [method |-> "get_extended_minterms", minterms |-> minterms, nof_irrelevant_symbols |-> nof_irrelevant_symbols]
  /\ result' = get_extended_minterms(minterms, nof_irrelevant_symbols)
  /\ UNCHANGED <<symbol_order, possible_variants, all_conditionals, tree,
                 collapses, condition, variant>>

NextMinterms ==
  \E minterms \in MintermLists, nof_irrelevant_symbols \in 0..MaxIrrelevant :
     GetExtendedMinterms(minterms, nof_irrelevant_symbols)

SpecMinterms == InitMinterms /\ [][NextMinterms]_vars

CalledExtended == call.method = "get_extended_minterms"

Ascending(s) == \A i, j \in DOMAIN s : i < j => s[i] < s[j]

\* C27: get_extended_minterms(minterms, k) is the ascending list without
\* duplicates of exactly the integers x with x >> k = m >> k for some given
\* minterm m; it contains every given minterm, for k = 0 it is the sorted
\* distinct input, and applying the function to its result with the same k
\* gives the result again.
C27_ExtendedMinterms ==
  CalledExtended
    => LET k == call.nof_irrelevant_symbols
           given == Range(call.minterms)
       IN /\ Ascending(result)
          /\ \A x \in 0..(2 * 2 ^ k * (MaxMinterm + 1)) :
                x \in Range(result)
                  <=> \E m \in given : x \div 2 ^ k = m \div 2 ^ k
          /\ \A i \in DOMAIN result : result[i] >= 0
          /\ given \subseteq Range(result)
          /\ k = 0 => (Range(result) = given /\ Len(result) = Cardinality(given))
          /\ get_extended_minterms(result, k) = result

\* minterms given unsorted and twice, extended by two low bits to more
\* integers than were given
C27_Witness ==
  /\ CalledExtended
  /\ call.nof_irrelevant_symbols = 2
  /\ Len(call.minterms) = 3
  /\ call.minterms[1] > call.minterms[2]
  /\ call.minterms[2] = call.minterms[3]
  /\ Len(result) = 8


\* the row of truth_table(.., ordered_symbols) whose term_to_integer is n:
\* the first symbol is the most significant bit
RowOf(ordered_symbols, n) ==
  LET bits == bool_from_integer(n, Len(ordered_symbols))
  IN [s \in Range(ordered_symbols) |-> bits[IndexOf(ordered_symbols, s)]]

\* the integers of the rows of the truth table for which the expression is
\* true, sorted
minterms_for_boolean(bool_expr, ordered_symbols) ==
  Sorted({n \in 0..(2 ^ Len(ordered_symbols) - 1) :
            Eval(bool_expr, RowOf(ordered_symbols, n))})

\* SOPform(variables, minterms): the minimised sum of products, kept as the
\* function it stands for, true for exactly the given minterms
SOPform(variables, minterms) ==
  [variables |-> variables, minterms |-> Range(minterms)]

\* the restriction without the extension of the minterms
get_boolean_expression_not_extended(boolean_expr, relevant_symbols) ==
  LET ordered_symbols ==
        relevant_symbols \o Sorted(FreeSymbols(boolean_expr) \ Range(relevant_symbols))
  IN SOPform(ordered_symbols, minterms_for_boolean(boolean_expr, ordered_symbols))

\* free_symbols is a set: the symbols that are not relevant are appended in
\* ascending order here, their order has no influence on the extension
get_boolean_expression_for_relevant_symbols(boolean_expr, relevant_symbols) ==
  LET ordered_symbols ==
        relevant_symbols \o Sorted(FreeSymbols(boolean_expr) \ Range(relevant_symbols))
      minterms == minterms_for_boolean(boolean_expr, ordered_symbols)
      extended_minterms ==
        get_extended_minterms(minterms, Len(ordered_symbols) - Len(relevant_symbols))
  IN SOPform(ordered_symbols, extended_minterms)

\* expr.subs(values) for an expression that depends on assigned symbols only
subs(expr, values) ==
  IF \E n \in expr.minterms :
        \A s \in DOMAIN values \cap Range(expr.variables) :
           RowOf(expr.variables, n)[s] = values[s]
  THEN True ELSE False

\* Condition.test_condition of the earlier draft
test_condition(self, v) ==
  LET relevant_symbols == SetSymbols(v, 1)
      relevant_condition ==
        get_boolean_expression_for_relevant_symbols(self, relevant_symbols)
  IN subs(relevant_condition, to_dict(v))

InitDraft ==
  /\ condition \in Conditions
  /\ call = NoCall
  /\ result = "unset"
  /\ variant = <<>>
  /\ symbol_order = <<>>
  /\ possible_variants = <<>>
  /\ all_conditionals = <<>>
  /\ tree = <<>>
  /\ collapses = 0

\* result = get_boolean_expression_for_relevant_symbols(condition, relevant_symbols)
RelevantExpression(relevant_symbols) ==
  /\ call.method = "none"
  /\ call' = [method |-> "get_boolean_expression_for_relevant_symbols", relevant_symbols |-> relevant_symbols]
  /\ result' = get_boolean_expression_for_relevant_symbols(condition, relevant_symbols)
  /\ UNCHANGED <<symbol_order, possible_variants, all_conditionals, tree,
                 collapses, condition, variant>>

\* result = Condition(condition).test_condition(variant)
TestCondition(v) ==
  /\ call.method = "none"
  /\ call' = [method |-> "test_condition"]
  /\ variant' = v
  /\ result' = test_condition(condition, v)
  /\ UNCHANGED <<symbol_order, possible_variants, all_conditionals, tree,
                 collapses, condition>>

NextDraft ==
  \/ \E relevant_symbols \in AttributeOrders : RelevantExpression(relevant_symbols)
  \/ \E v \in CheckVariants : TestCondition(v)

SpecDraft == InitDraft /\ [][NextDraft]_vars

CalledRelevant == call.method = "get_boolean_expression_for_relevant_symbols"
CalledTest == call.method = "test_condition"

\* the rows of the truth table of the result
Rows(expr) == 0..(2 ^ Len(expr.variables) - 1)

\* the expression is true in exactly the rows where the symbol s is true
IsSymbol(expr, s) ==
  expr.minterms = {n \in Rows(expr) : RowOf(expr.variables, n)[s] = True}

\* C28: get_boolean_expression_for_relevant_symbols(e, R) depends only on
\* the symbols of R and is true under an assignment of R exactly when some
\* assignment of the other free symbols of e makes e true; for B & (A | C),
\* R = [B] gives B, R = [A, C] gives A | C and R = [C] gives True; and
\* test_condition(variant) is true exactly when the condition is
\* satisfiable together with the values the variant assigns.
C28_ExistentialProjection ==
  /\ CalledRelevant
       => LET R == call.relevant_symbols
              rel == Range(R)
          IN /\ \A n \in Rows(result), m \in Rows(result) :
                   (\A s \in rel : RowOf(result.variables, n)[s] = RowOf(result.variables, m)[s])
                     => (n \in result.minterms <=> m \in result.minterms)
             /\ \A n \in Rows(result) :
                   n \in result.minterms
                     <=> \E a \in [FreeSymbols(condition) \cup rel -> {True, False}] :
                            /\ \A s \in rel : a[s] = RowOf(result.variables, n)[s]
                            /\ Eval(condition, a)
             /\ (condition = part_1.condition /\ R = <<B>>) => IsSymbol(result, B)
             /\ (condition = part_1.condition /\ R = <<A, C>>)
                  => result.minterms
                       = {n \in Rows(result) :
                            \/ RowOf(result.variables, n)[A] = True
                            \/ RowOf(result.variables, n)[C] = True}
             /\ (condition = part_1.condition /\ R = <<C>>)
                  => result.minterms = Rows(result)
  /\ CalledTest => (result = True <=> Satisfiable(condition, variant))

\* B & (A | C) was restricted to [C], and to two symbols given in another
\* order than they are sorted
C28_Witness ==
  /\ CalledRelevant
  /\ condition = part_1.condition
  /\ call.relevant_symbols = <<C>>
  /\ result.minterms = Rows(result)

\* a condition with a negation was tested false for a partial variant
TestedFalse ==
  /\ CalledTest
  /\ result = False
  /\ condition = And(Sym(A), Not(Sym(B)))
  /\ \E i \in DOMAIN variant : variant[i].value = None
  /\ ~is_empty(variant)


\* ------------------------------------------------------------------------
\* The constructor and collapse called on any node
\* ------------------------------------------------------------------------
\* symbol orders, one of them with a group that occurs twice
NodeOrders ==
  { << <<A>>, <<B>> >>, << <<A>>, <<B, C>> >>, << <<A>>, <<B>>, <<C>> >>,
    << <<A>>, <<A>>, <<B>> >> }

NodePossibleLists ==
  { <<>>, ExamplePossible, <<variant_1>>,
    <<Variant3(True, True, True), Variant3(True, True, False)>> }

\* the variants a caller can pass: the attributes of the root variant,
\* each unset or set
\* labels for the constructor's current_symbols besides [] and the groups of
\* the order: [C] and [B] are no group of some of the orders
NodeLabels == {<<B>>, <<C>>}

NodeVariants(order) ==
  LET root == create_root_variant(order)
  IN { [i \in DOMAIN root |-> Attribute(root[i].symbol, values[i])] :
         values \in [DOMAIN root -> OptBool] }

InitNode ==
  /\ symbol_order \in NodeOrders
  /\ possible_variants \in NodePossibleLists
  /\ all_conditionals \in {ExampleConditionals, <<>>}
  /\ tree = <<>>
  /\ collapses = 0
  /\ condition = Sym(A)
  /\ variant = <<>>
  /\ result = "unset"
  /\ call = NoCall

\* tree = VariantNode(current_symbols, v, symbol_order, possible_variants,
\*                    all_conditionals), or the error it raises
ConstructNode(current_symbols, v, frames) ==
  /\ call.method = "none"
  /\ \E built \in {NewNode(<<>>, current_symbols, v, symbol_order,
                            possible_variants, all_conditionals, frames)} :
        /\ tree' = IF Raised(built) THEN <<>> ELSE built
        /\ result' = IF built = RecursionError THEN "RecursionError"
                     ELSE IF built = ValueError THEN "ValueError"
                     ELSE IF built = IndexError THEN "IndexError"
                     ELSE "constructed"
  /\ call' = [method |-> "VariantNode", current_symbols |-> current_symbols,
              frames |-> frames]
  /\ variant' = v
  /\ UNCHANGED <<symbol_order, possible_variants, all_conditionals, collapses,
                 condition>>

\* n.collapse(head_symbols, tail_symbols) for a node n of the tree
CollapseAt(n, head_symbols, tail_symbols) ==
  /\ tree # <<>>
  /\ collapses < MaxCollapses
  /\ tree' = collapse(tree, n, head_symbols, tail_symbols)
  /\ collapses' = collapses + 1
  /\ call' = [method |-> "collapse", self |-> n, head_symbols |-> head_symbols, tail_symbols |-> tail_symbols]
  /\ UNCHANGED <<symbol_order, possible_variants, all_conditionals,
                 condition, variant, result>>

NextNode ==
  \/ \E current_symbols \in {<<>>} \cup Range(symbol_order) \cup NodeLabels :
        \E v \in NodeVariants(symbol_order), frames \in Frames :
           ConstructNode(current_symbols, v, frames)
  \/ \E n \in Reachable :
        \E head_symbols \in CollapseArguments, tail_symbols \in CollapseArguments :
           CollapseAt(n, head_symbols, tail_symbols)

SpecNode == InitNode /\ [][NextNode]_vars

Constructed == call.method # "none" /\ result = "constructed"


NodeResults == result \in {"unset", "constructed", "RecursionError", "ValueError"}


CalledConstructor == call.method = "VariantNode"

LastGroup == symbol_order[Len(symbol_order)]

\* C25: constructing a node whose variant is not final and whose
\* current_symbols is the last group of the order raises an error; no
\* childless node that is not final is returned.
C25_NoNextGroupFailsFast ==
  (CalledConstructor
     /\ call.current_symbols = LastGroup
     /\ ~is_final(variant, Flatten(symbol_order)))
    => result # "constructed"

\* what the constructor returns in that case: the node alone, not final,
\* without children and conditionals
NoNextGroupTruncates ==
  (CalledConstructor
     /\ call.current_symbols = LastGroup
     /\ ~is_final(variant, Flatten(symbol_order)))
    => /\ result = "constructed"
       /\ Len(tree) = 1
       /\ tree[Root].children = <<>>
       /\ tree[Root].conditionals = <<>>

\* the interpreter had frames for as many nested constructor calls as the
\* order has groups
FramesForEveryGroup == call.frames >= Len(symbol_order)

\* C26: construction ends for every order, possible variants and
\* conditionals, in a tree that is not deeper than the order has groups and
\* has at most 2^|symbols| leaves, wherever the interpreter has frames for a
\* nesting as deep as the order has groups.
C26_ConstructionTerminates ==
  (call.method = "VariantNode" /\ call.current_symbols = <<>>
     /\ variant = create_root_variant(symbol_order)
     /\ FramesForEveryGroup)
    => /\ result = "constructed"
       /\ \A n \in Reachable : Depth(tree, n) <= Len(symbol_order)
       /\ Len(get_leafs(tree, Root)) <= 2 ^ Cardinality(FlatSymbols)

\* the same for orders whose groups are all different
ConstructionTerminatesDistinctGroups ==
  (call.method = "VariantNode" /\ call.current_symbols = <<>>
     /\ variant = create_root_variant(symbol_order)
     /\ FramesForEveryGroup
     /\ \A i, j \in DOMAIN symbol_order : i # j => symbol_order[i] # symbol_order[j])
    => /\ result = "constructed"
       /\ \A n \in Reachable : Depth(tree, n) <= Len(symbol_order)
       /\ Len(get_leafs(tree, Root)) <= 2 ^ Cardinality(FlatSymbols)

\* for orders whose groups are all different the constructor called on the
\* root variant raises RecursionError exactly where a nesting that would end
\* is deeper than the frames left
FramesRunOutBelowGroups ==
  (call.method = "VariantNode" /\ call.current_symbols = <<>>
     /\ variant = create_root_variant(symbol_order)
     /\ result = "RecursionError"
     /\ \A i, j \in DOMAIN symbol_order : i # j => symbol_order[i] # symbol_order[j])
    => ~FramesForEveryGroup

\* the chain [[A], [B], [C]] with the example variants was given frames for
\* two nested calls: the call for the third group raised RecursionError
RanOutOfFrames ==
  /\ call.method = "VariantNode" /\ call.current_symbols = <<>>
  /\ variant = create_root_variant(symbol_order)
  /\ symbol_order = ExampleOrder
  /\ possible_variants = ExamplePossible
  /\ call.frames = 2
  /\ result = "RecursionError"
  /\ tree = <<>>

\* the nodes outside the subtree of n keep their children and parent, and
\* the nodes of the subtree that are still in the whole tree are below n
ConfinedTo(n, before, after) ==
  LET inside == ReachableFrom(before, n)
  IN /\ \A m \in DOMAIN before \ inside :
          /\ after[m].children = before[m].children
          /\ after[m].parent = before[m].parent
     /\ \A m \in inside :
          m \in ReachableFrom(after, Root) => m \in ReachableFrom(after, n)

\* C30: collapse called on a node that is not the root of the whole tree
\* leaves the children list and parent pointer of every node outside that
\* node's subtree unchanged, and every node of the subtree that is not
\* spliced out is still reachable from the node.
C30_CollapseConfined ==
  [][(call'.method = "collapse" /\ collapses' = collapses + 1
        /\ call'.self # Root)
      => ConfinedTo(call'.self, tree, tree')]_vars

\* the same for a node that does not itself carry the head label
CollapseConfinedBelowHead ==
  [][(call'.method = "collapse" /\ collapses' = collapses + 1
        /\ call'.self # Root
        /\ tree[call'.self].current_symbols # call'.head_symbols)
      => ConfinedTo(call'.self, tree, tree')]_vars


\* ------------------------------------------------------------------------
\* main(): construction, collect_child_conditionals, collapse
\* ------------------------------------------------------------------------
\* the set collect_child_conditionals(node) returns: the conditionals of the
\* node and of every node below it
RECURSIVE collect_child_conditionals(_, _)
collect_child_conditionals(arena, node) ==
  UNION {collect_child_conditionals(arena, arena[node].children[i]) :
           i \in DOMAIN arena[node].children}
    \cup Range(arena[node].conditionals)

\* list(conditionals) of a set: the elements once each, in the order the set
\* happens to iterate (Part objects hash by identity, so any order)
ListsOf(conditionals) ==
  {order \in [1..Cardinality(conditionals) -> conditionals] :
     Range(order) = conditionals}

\* the node after node.conditionals = list(conditionals) and
\* node.node_props["conditional_count"] = len(conditionals)
CollectedNodes(arena, node) ==
  LET conditionals == collect_child_conditionals(arena, node)
  IN {[arena[node] EXCEPT
         !.conditionals = order,
         !.node_props = {p \in @ : p[1] # "conditional_count"}
                          \cup {<<"conditional_count", Cardinality(conditionals)>>}] :
        order \in ListsOf(conditionals)}

\* the arenas collect_child_conditionals(node) can leave, from index i on:
\* the node and every node below it rewritten, the others as they were
RECURSIVE CollectedFrom(_, _, _)
CollectedFrom(arena, node, i) ==
  IF i > Len(arena) THEN {<<>>}
  ELSE LET nodes == IF i \in ReachableFrom(arena, node)
                    THEN CollectedNodes(arena, i) ELSE {arena[i]}
       IN {<<n>> \o rest : n \in nodes, rest \in CollectedFrom(arena, node, i + 1)}

\* the symbol orders of the three trees main() builds
MainOrders == { <<<<A>>, <<B>>, <<C>>>>, <<<<A>>, <<B, C>>>>, <<<<A>>, <<B>>>> }

MainConditionalLists == { ExampleConditionals, <<part_2>>, <<>> }

InitMain ==
  /\ symbol_order \in MainOrders
  /\ possible_variants \in {ExamplePossible, <<variant_1, variant_2>>}
  /\ all_conditionals \in MainConditionalLists
  /\ tree = <<>>
  /\ collapses = 0
  /\ condition = Sym(A)
  /\ variant = <<>>
  /\ result = "unset"
  /\ call = NoCall

\* collect_child_conditionals(tree)
CollectChildConditionals ==
  /\ tree # <<>>
  /\ \E collected \in CollectedFrom(tree, Root, 1) : tree' = collected
  /\ result' = collect_child_conditionals(tree, Root)
  /\ call' = [method |-> "collect_child_conditionals"]
  /\ UNCHANGED <<symbol_order, possible_variants, all_conditionals, collapses,
                 condition, variant>>

NextMain ==
  \/ Construct
  \/ CollectChildConditionals
  \/ \E head_symbols \in CollapseArguments, tail_symbols \in CollapseArguments :
        Collapse(head_symbols, tail_symbols)

SpecMain == InitMain /\ [][NextMain]_vars

\* the tree of main() after collect_child_conditionals(tree) and
\* tree.collapse([B], [C]): every node carries the conditionals of its
\* subtree and their number
MainCollapsed ==
  /\ symbol_order = ExampleOrder
  /\ possible_variants = ExamplePossible
  /\ all_conditionals = ExampleConditionals
  /\ call.method = "collect_child_conditionals"
  /\ collapses = 1
  /\ \A n \in Reachable :
       /\ Range(tree[n].conditionals) = collect_child_conditionals(tree, n)
       /\ tree[n].node_props =
            {<<"conditional_count", Len(tree[n].conditionals)>>}
  /\ Range(tree[Root].conditionals) = {part_1, part_2}
  /\ \E n \in Reachable : tree[n].current_symbols = <<B, C>>


\* the conditionals main() prints per node (in creation order) after the
\* collapse: both parts above and on the branch of variant_3, Part 2 on the
\* branch of variant_2, Part 1 on the branch of variant_1
MainExample ==
  /\ MainCollapsed
  /\ Len(tree) = 9
  /\ \A n \in 1..5 : Range(tree[n].conditionals) = {part_1, part_2}
  /\ \A n \in 6..7 : Range(tree[n].conditionals) = {part_2}
  /\ \A n \in 8..9 : Range(tree[n].conditionals) = {part_1}
  /\ \A n \in {4, 7, 9} : tree[n].current_symbols = <<B, C>> /\ tree[n].parent \in {2, 5}

\* collect_child_conditionals returns the conditionals of the whole tree,
\* leaves every count equal to the length of the list, and touches nothing
\* but conditionals and node_props
CollectedTree ==
  [][(tree # <<>> /\ collapses' = collapses /\ tree' # tree) =>
       /\ result' = collect_child_conditionals(tree, Root)
       /\ Len(tree') = Len(tree)
       /\ \A n \in DOMAIN tree :
            /\ tree'[n].children = tree[n].children
            /\ tree'[n].parent = tree[n].parent
            /\ tree'[n].variant = tree[n].variant
            /\ tree'[n].current_symbols = tree[n].current_symbols
       /\ \A n \in ReachableFrom(tree, Root) :
            /\ Range(tree'[n].conditionals) = collect_child_conditionals(tree, n)
            /\ tree'[n].node_props =
                 {<<"conditional_count", Cardinality(Range(tree'[n].conditionals))>>}]_vars

====
